---- MODULE Spec2Model ----
(***************************************************************************)
(* Model of app.py: a Flask application object, two routes registered on   *)
(* it by the app.route decorator while the module is loaded, and the       *)
(* development server started by app.run when the module is the main       *)
(* program.  Requests are dispatched by the framework's router against     *)
(* the rules the module registered.                                        *)
(***************************************************************************)
EXTENDS Naturals, Sequences, FiniteSets, TLC

VARIABLES
    name,       \* the module's __name__: "__main__" when run, "app" when imported
    pc,         \* position in the module / the process's life
    url_map,    \* rules registered on app: [rule, endpoint, methods]
    running,    \* TRUE while app.run is serving
    listen,     \* the address app.run bound
    log         \* history of served requests and their responses

vars == <<name, pc, url_map, running, listen, log>>

\* What a request can change on the server side (everything but the history).
server == <<name, url_map, running, listen>>

----------------------------------------------------------------------------
\* Bounds and input sets

MaxReq == 3

Methods == {"GET", "HEAD", "OPTIONS", "POST", "PUT", "DELETE"}

Paths == {"/", "/new", "/missing", "/unknown-path"}

ModuleNames == {"__main__", "app"}

----------------------------------------------------------------------------
\* The two view functions (app.py lines 5-6 and 9-10)

hello_stale == "Hello, from Flask App!"

hello == "Hello, from Flask App updated!"

new_route_stale == "This is a new route"

new_route == "This is a new route!"

view_functions_swapped(endpoint) ==
    CASE endpoint = "hello"     -> new_route
      [] endpoint = "new_route" -> hello

\* Calling the view function bound to an endpoint.
view_functions(endpoint) ==
    CASE endpoint = "hello"     -> hello
      [] endpoint = "new_route" -> new_route

----------------------------------------------------------------------------
\* Route registration: @app.route(rule) with no methods argument

DefaultMethodsWithPost == {"GET", "HEAD", "OPTIONS", "POST"}

\* No methods list is given, so the rule accepts GET, plus the HEAD and
\* OPTIONS the framework adds to every GET rule.
DefaultMethods == {"GET", "HEAD", "OPTIONS"}

add_url_rule_replace(map, rule, endpoint) ==
    {[rule |-> rule, endpoint |-> endpoint, methods |-> DefaultMethods]}

add_url_rule(map, rule, endpoint) ==
    map \cup {[rule |-> rule, endpoint |-> endpoint, methods |-> DefaultMethods]}

----------------------------------------------------------------------------
\* Request dispatch against the registered rules

NotFound == [status |-> 404, body |-> "Not Found", ran |-> "none"]

MethodNotAllowed == [status |-> 405, body |-> "Method Not Allowed", ran |-> "none"]

\* Rules are literal paths with no converters: a rule matches a path exactly.
Matching(map, path) == {r \in map : r.rule = path}

dispatch_catch_all(map, method, path) ==
    LET rules == Matching(map, path)
        any   == {r \in map : r.rule = "/"}
    IN  IF rules = {} /\ any = {} THEN NotFound
        ELSE LET r == CHOOSE x \in (IF rules = {} THEN any ELSE rules) : TRUE
             IN  [status |-> 200, body |-> view_functions(r.endpoint),
                  ran |-> r.endpoint]

dispatch_request(map, method, path) ==
    LET rules == Matching(map, path)
        allow == {r \in rules : method \in r.methods}
    IN  IF rules = {} THEN NotFound
        ELSE IF allow = {} THEN MethodNotAllowed
        ELSE LET r == CHOOSE x \in allow : TRUE
             IN  IF method = "OPTIONS"
                 \* answered by the framework itself, the view is not called
                 THEN [status |-> 200, body |-> "", ran |-> "none"]
                 ELSE IF method = "HEAD"
                 \* the view runs, the body is not sent
                 THEN [status |-> 200, body |-> "", ran |-> r.endpoint]
                 ELSE [status |-> 200, body |-> view_functions(r.endpoint),
                       ran |-> r.endpoint]

----------------------------------------------------------------------------
\* Actions

Init ==
    /\ name \in ModuleNames
    /\ pc = "app_created"          \* after line 2: app = Flask(__name__)
    /\ url_map = {}
    /\ running = FALSE
    /\ listen = [host |-> "none", port |-> "none"]
    /\ log = <<>>

\* lines 4-6: @app.route('/') def hello
RegisterHello ==
    /\ pc = "app_created"
    /\ url_map' = add_url_rule(url_map, "/", "hello")
    /\ pc' = "hello_registered"
    /\ UNCHANGED <<name, running, listen, log>>

\* lines 8-10: @app.route('/new') def new_route
RegisterNewRoute ==
    /\ pc = "hello_registered"
    /\ url_map' = add_url_rule(url_map, "/new", "new_route")
    /\ pc' = "routes_registered"
    /\ UNCHANGED <<name, running, listen, log>>

\* app.run(host=h) with no port: the framework's default port is used.
run(h) == [host |-> h, port |-> "default"]

MainUnguarded ==
    /\ pc = "routes_registered"
    /\ running' = TRUE
    /\ listen' = run("0.0.0.0")
    /\ pc' = "serving"
    /\ UNCHANGED <<name, url_map, log>>

\* lines 12-13: if __name__ == '__main__': app.run(host='0.0.0.0')
Main ==
    /\ pc = "routes_registered"
    /\ IF name = "__main__"
       THEN /\ running' = TRUE
            /\ listen' = run("0.0.0.0")
            /\ pc' = "serving"
       ELSE /\ pc' = "imported"
            /\ UNCHANGED <<running, listen>>
    /\ UNCHANGED <<name, url_map, log>>

Entry(method, path, resp) == [method |-> method, path |-> path, resp |-> resp]

\* A request whose handling unregisters the rule it matched.
HandleRequestConsuming(method, path) ==
    /\ pc = "serving"
    /\ running
    /\ Len(log) < MaxReq
    /\ log' = Append(log, Entry(method, path, dispatch_request(url_map, method, path)))
    /\ url_map' = url_map \ Matching(url_map, path)
    /\ UNCHANGED <<name, pc, running, listen>>

\* A request whose not-found error brings the server down.
HandleRequestCrashing(method, path) ==
    /\ pc = "serving"
    /\ running
    /\ Len(log) < MaxReq
    /\ LET resp == dispatch_request(url_map, method, path)
       IN  /\ log' = Append(log, Entry(method, path, resp))
           /\ running' = (resp.status # 404)
    /\ UNCHANGED <<name, pc, url_map, listen>>

\* The running server answers one request; the views touch no state.
HandleRequest(method, path) ==
    /\ pc = "serving"
    /\ running
    /\ Len(log) < MaxReq
    /\ log' = Append(log, Entry(method, path, dispatch_request(url_map, method, path)))
    /\ UNCHANGED <<name, pc, url_map, running, listen>>

\* app.run blocks until the process is killed from outside.
Kill ==
    /\ pc = "serving"
    /\ running' = FALSE
    /\ pc' = "killed"
    /\ UNCHANGED <<name, url_map, listen, log>>

Next ==
    \/ RegisterHello
    \/ RegisterNewRoute
    \/ Main
    \/ \E m \in Methods, p \in Paths : HandleRequest(m, p)
    \/ Kill

Spec == Init /\ [][Next]_vars

----------------------------------------------------------------------------
\* Properties

\* The table the module is expected to have built once it is loaded.
TwoRoutes ==
    { [rule |-> "/",    endpoint |-> "hello",     methods |-> {"GET", "HEAD", "OPTIONS"}],
      [rule |-> "/new", endpoint |-> "new_route", methods |-> {"GET", "HEAD", "OPTIONS"}] }

Served(method, path) == {i \in DOMAIN log : log[i].method = method /\ log[i].path = path}

\* C1: while the server is running, GET "/" is answered with status 200 and
\* the body exactly "Hello, from Flask App updated!" - both for the request
\* the current state would serve and for every one already served.
C1_GetRoot ==
    /\ running =>
         LET r == dispatch_request(url_map, "GET", "/")
         IN  r.status = 200 /\ r.body = "Hello, from Flask App updated!"
    /\ \A i \in Served("GET", "/") :
         /\ log[i].resp.status = 200
         /\ log[i].resp.body = "Hello, from Flask App updated!"

C1_Witness ==
    /\ running
    /\ \E i \in Served("GET", "/") : log[i].resp.status = 200

\* C2: while the server is running, GET "/new" is answered with status 200
\* and the body exactly "This is a new route!".
C2_GetNew ==
    /\ running =>
         LET r == dispatch_request(url_map, "GET", "/new")
         IN  r.status = 200 /\ r.body = "This is a new route!"
    /\ \A i \in Served("GET", "/new") :
         /\ log[i].resp.status = 200
         /\ log[i].resp.body = "This is a new route!"

C2_Witness ==
    /\ running
    /\ \E i \in Served("GET", "/new") : log[i].resp.status = 200

C4_Idempotent ==
    /\ [](\A i, j \in DOMAIN log :
            (log[i].method = log[j].method /\ log[i].path = log[j].path)
                => log[i].resp = log[j].resp)
    /\ [][log' # log => UNCHANGED server]_vars

C4_Witness ==
    /\ Len(log) = 3
    /\ log[1].method = log[3].method /\ log[1].path = log[3].path
    /\ log[2].path # log[1].path
    /\ log[1].resp = log[3].resp

C6_RunsUntilKilled ==
    /\ [](running \in BOOLEAN)
    /\ [](running => pc = "serving" /\ {r.rule : r \in url_map} = {"/", "/new"})
    /\ [][(running /\ log' # log) => running']_vars
    /\ [][(running /\ ~running') => (pc' = "killed" /\ log' = log)]_vars

C6_Witness ==
    /\ running
    /\ Len(log) = MaxReq
    /\ \E i \in DOMAIN log : log[i].resp.status = 404

\* C7: GET /, GET /new and GET /missing, issued in any order after the
\* start, get 200 "Hello, from Flask App updated!", 200 "This is a new
\* route!" and 404 respectively.
C7_Scenario ==
    ( /\ Len(log) = 3
      /\ \A i \in DOMAIN log : log[i].method = "GET"
      /\ {log[i].path : i \in DOMAIN log} = {"/", "/new", "/missing"} )
    => \A i \in DOMAIN log :
         /\ log[i].path = "/" =>
              /\ log[i].resp.status = 200
              /\ log[i].resp.body = "Hello, from Flask App updated!"
         /\ log[i].path = "/new" =>
              /\ log[i].resp.status = 200
              /\ log[i].resp.body = "This is a new route!"
         /\ log[i].path = "/missing" => log[i].resp.status = 404

C7_Witness ==
    /\ Len(log) = 3
    /\ \A i \in DOMAIN log : log[i].method = "GET"
    /\ log[1].path = "/" /\ log[1].resp.status = 200
    /\ log[2].path = "/new" /\ log[2].resp.status = 200
    /\ log[3].path = "/missing" /\ log[3].resp.status = 404

\* C8: the server runs only when the module is the main program - imported,
\* the module ends with both routes registered and no server - and a
\* started server listens on host 0.0.0.0 on the framework's default port.
C8_MainGuard ==
    /\ name # "__main__" => ~running
    /\ pc = "imported" => (url_map = TwoRoutes /\ ~running /\ log = <<>>)
    /\ running => listen = [host |-> "0.0.0.0", port |-> "default"]

C8_Witness ==
    /\ name # "__main__"
    /\ pc = "imported"
    /\ url_map = TwoRoutes

\* C9: the rules accept only GET, HEAD and OPTIONS, so a POST, PUT or
\* DELETE to "/" or "/new" never runs the view and never gets a 200 with
\* the view's body.
C9_DefaultMethodsOnly ==
    /\ \A r \in url_map : r.methods = {"GET", "HEAD", "OPTIONS"}
    /\ \A i \in DOMAIN log :
         (log[i].method \in {"POST", "PUT", "DELETE"} /\ log[i].path \in {"/", "/new"})
            => /\ log[i].resp.ran = "none"
               /\ log[i].resp.status # 200
               /\ log[i].resp.body \notin {"Hello, from Flask App updated!",
                                           "This is a new route!"}

C9_Witness ==
    /\ \E i \in Served("POST", "/") : log[i].resp.ran = "none"
    /\ \E i \in Served("DELETE", "/new") : log[i].resp.ran = "none"
    /\ \E i \in Served("GET", "/") : log[i].resp.ran = "hello"

====
